---------------------------- MODULE Spec2Model ----------------------------
(***************************************************************************)
(* Model of predictor.py: the extraction / validation / prediction          *)
(* pipeline run by main over a list of .csv files.                          *)
(*                                                                          *)
(* Representation.                                                          *)
(*   - A Python str is a sequence of one-character strings, so that         *)
(*     parsing and formatting are computed character by character.          *)
(*   - A csv row is a sequence of such strings (csv.reader gives the empty  *)
(*     list for a blank line).                                              *)
(*   - A Python float is an integer number of 1/800 (an eighth of a cent):  *)
(*     every price with at most two decimals, the half of a sum of two of   *)
(*     them and the quarter of a difference of such values are exact in     *)
(*     this unit.  The prices fed to the model are multiples of 0.25, which  *)
(*     binary floating point also represents exactly.                       *)
(*   - A datetime is a record [day, month, year].                           *)
(*   - A function that can raise returns a record whose field exc names    *)
(*     the exception type ("none" when it returns normally).                *)
(***************************************************************************)
EXTENDS Integers, Sequences, FiniteSets

(***************************************************************************)
(* Characters and strings                                                   *)
(***************************************************************************)

Digits == <<"0", "1", "2", "3", "4", "5", "6", "7", "8", "9">>

\* The letters the modelled tickers are written with.  No modelled string
\* spells "inf", "nan" or an exponent, which float() would also accept.
Letters == {"A", "P", "L", "M", "S", "F", "T", "b", "c"}

IsDigit(c) == c \in {"0", "1", "2", "3", "4", "5", "6", "7", "8", "9"}

DigitVal(c) ==
    CASE c = "0" -> 0 [] c = "1" -> 1 [] c = "2" -> 2 [] c = "3" -> 3
      [] c = "4" -> 4 [] c = "5" -> 5 [] c = "6" -> 6 [] c = "7" -> 7
      [] c = "8" -> 8 [] c = "9" -> 9

AllDigits(s) == \A i \in 1..Len(s) : IsDigit(s[i])

\* int() of a string of decimal digits
RECURSIVE ToInt(_)
ToInt(s) ==
    IF s = <<>> THEN 0
    ELSE ToInt(SubSeq(s, 1, Len(s) - 1)) * 10 + DigitVal(s[Len(s)])

\* str() of a natural number
RECURSIVE IntToStr(_)
IntToStr(n) ==
    IF n < 10 THEN <<Digits[n + 1]>>
    ELSE IntToStr(n \div 10) \o <<Digits[(n % 10) + 1]>>

\* a natural number written with at least w digits, zero padded
RECURSIVE Pad(_, _)
Pad(n, w) ==
    LET s == IntToStr(n)
    IN  IF Len(s) >= w THEN s ELSE <<"0">> \o Pad(n, w - 1)

\* s.split(sep)
RECURSIVE Split(_, _)
Split(s, sep) ==
    IF \A i \in 1..Len(s) : s[i] # sep THEN <<s>>
    ELSE LET k == CHOOSE i \in 1..Len(s) :
                      s[i] = sep /\ \A j \in 1..(i - 1) : s[j] # sep
         IN  <<SubSeq(s, 1, k - 1)>> \o Split(SubSeq(s, k + 1, Len(s)), sep)

RECURSIVE Pow10(_)
Pow10(n) == IF n = 0 THEN 1 ELSE 10 * Pow10(n - 1)

\* The one element of a singleton: Only({F(x) : x \in {e}}) is F(e) with e
\* computed once, as an assignment x = e followed by F(x) is.
Only(S) == CHOOSE x \in S : TRUE

\* str.isalpha(): at least one character and every character a letter
IsAlpha(s) == Len(s) > 0 /\ \A i \in 1..Len(s) : s[i] \in Letters

(***************************************************************************)
(* float(str) and '{:.2f}'.format(float)                                    *)
(***************************************************************************)

\* One unit of currency in the model's float unit (1/800).
Unit == 8 * 100

\* float(s) for an unsigned decimal literal: digits, then optionally a point
\* and digits, with a digit on at least one side of the point.  The value is
\* exact for at most two decimals, which is all the modelled files contain.
ParseUnsigned(s) ==
    LET parts == Split(s, ".")
        int   == parts[1]
        frac  == IF Len(parts) = 2 THEN parts[2] ELSE <<>>
    IN  IF Len(parts) > 2 \/ ~AllDigits(int) \/ ~AllDigits(frac)
           \/ Len(int) + Len(frac) = 0
        THEN [exc |-> "ValueError", val |-> 0]
        ELSE [exc |-> "none",
              val |-> ToInt(int) * Unit
                      + (ToInt(frac) * Unit) \div Pow10(Len(frac))]

\* float(s): ValueError when s is no decimal literal
ParseFloat(s) ==
    IF Len(s) > 0 /\ s[1] = "-"
    THEN LET v == ParseUnsigned(Tail(s))
         IN  [v EXCEPT !.val = 0 - v.val]
    ELSE ParseUnsigned(s)

\* '{:.2f}'.format(x): the nearest multiple of 0.01, a tie going to the even
\* one (the float is exact, so a tie is a real tie)
Format2f(x) ==
    LET a     == IF x < 0 THEN 0 - x ELSE x
        q     == a \div 8
        r     == a % 8
        cents == IF r > 4 \/ (r = 4 /\ q % 2 = 1) THEN q + 1 ELSE q
    IN  (IF x < 0 THEN <<"-">> ELSE <<>>)
        \o IntToStr(cents \div 100) \o <<".">> \o Pad(cents % 100, 2)

(***************************************************************************)
(* datetime.strptime(s, '%d-%m-%Y'), strftime('%d-%m-%Y'), timedelta        *)
(***************************************************************************)

MAXYEAR == 9999

IsLeap(y) == (y % 4 = 0) /\ ((y % 100 # 0) \/ (y % 400 = 0))

\* Mutant: February has 28 days in every year.
DaysInMonth_NoLeap(y, m) ==
    IF m = 2 THEN 28 ELSE IF m \in {4, 6, 9, 11} THEN 30 ELSE 31

DaysInMonth(y, m) ==
    IF m = 2 THEN (IF IsLeap(y) THEN 29 ELSE 28)
    ELSE IF m \in {4, 6, 9, 11} THEN 30 ELSE 31

NoDate(e) == [exc |-> e, day |-> 0, month |-> 0, year |-> 0]

\* %d takes one or two digits (1..31), %m one or two digits (1..12), %Y
\* exactly four digits; the whole string must match and the result must be a
\* date of the calendar (year >= 1).
Strptime(s) ==
    LET parts == Split(s, "-")
    IN  IF Len(parts) # 3 THEN NoDate("ValueError")
        ELSE LET d == parts[1]
                 m == parts[2]
                 y == parts[3]
             IN  IF ~(AllDigits(d) /\ AllDigits(m) /\ AllDigits(y))
                    \/ Len(d) \notin {1, 2} \/ Len(m) \notin {1, 2} \/ Len(y) # 4
                 THEN NoDate("ValueError")
                 ELSE IF ToInt(m) \notin 1..12 \/ ToInt(y) < 1
                         \/ ToInt(d) < 1
                      THEN NoDate("ValueError")
                      ELSE IF ToInt(d) > DaysInMonth(ToInt(y), ToInt(m))
                           THEN NoDate("ValueError")
                           ELSE [exc |-> "none", day |-> ToInt(d),
                                 month |-> ToInt(m), year |-> ToInt(y)]

\* date.strftime('%d-%m-%Y') (years of four digits)
Strftime(date) ==
    Pad(date.day, 2) \o <<"-">> \o Pad(date.month, 2) \o <<"-">>
    \o Pad(date.year, 4)

\* date + timedelta(days=1): OverflowError past 31-12-9999
AddDay(date) ==
    IF date.day < DaysInMonth(date.year, date.month)
    THEN [date EXCEPT !.day = date.day + 1]
    ELSE IF date.month < 12
         THEN [date EXCEPT !.day = 1, !.month = date.month + 1]
         ELSE IF date.year < MAXYEAR
              THEN [date EXCEPT !.day = 1, !.month = 1, !.year = date.year + 1]
              ELSE NoDate("OverflowError")

(***************************************************************************)
(* check_data_sanity                                                        *)
(***************************************************************************)

\* The number of rows of a window: the 10 of len(rows) - 10 and range(10).
WindowLen == 10

\* The body of the loop of check_data_sanity for one row: "ok" when the loop
\* goes on to the next row, "False" when it returns False, "IndexError" when
\* row[0], row[1] or row[2] does not exist (only ValueError is caught).
CheckRow(row) ==
    IF Len(row) < 1 THEN "IndexError"
    ELSE IF ~IsAlpha(row[1]) THEN "False"
    ELSE IF Len(row) < 2 THEN "IndexError"
    ELSE IF Strptime(row[2]).exc # "none" THEN "False"
    ELSE IF row[2] # Strftime(Strptime(row[2])) THEN "False"
    ELSE IF Len(row) < 3 THEN "IndexError"
    ELSE IF ParseFloat(row[3]).exc # "none" THEN "False"
    ELSE IF row[3] # Format2f(ParseFloat(row[3]).val) THEN "False"
    ELSE "ok"

\* for row in rows, from row i on: the first row that ends the loop decides
RECURSIVE CheckRowsFrom(_, _)
CheckRowsFrom(rows, i) ==
    IF i > Len(rows) THEN "True"
    ELSE Only({ IF r # "ok" THEN r ELSE CheckRowsFrom(rows, i + 1) :
                  r \in {CheckRow(rows[i])} })

\* Mutant: the length of rows is not checked.
check_data_sanity_NoLength(rows) == CheckRowsFrom(rows, 1)

\* check_data_sanity(rows): "True", "False", or "IndexError" when it raises
check_data_sanity(rows) ==
    IF Len(rows) < WindowLen THEN "False" ELSE CheckRowsFrom(rows, 1)

(***************************************************************************)
(* predict_values                                                           *)
(***************************************************************************)

\* float(value[2]) for one row: IndexError without a third field, ValueError
\* when the field is no number
PriceOf(value) ==
    IF Len(value) < 3 THEN [exc |-> "IndexError", val |-> 0]
    ELSE ParseFloat(value[3])

\* if price > highest: highest = price
Greater(price, highest) == IF price > highest THEN price ELSE highest

\* Mutant: the rows with the highest price are not skipped.
GreaterBelow_NoSkip(price, second_highest, highest) ==
    IF price > second_highest THEN price ELSE second_highest

\* if price > second_highest and price != highest: second_highest = price
GreaterBelow(price, second_highest, highest) ==
    IF price > second_highest /\ price # highest
    THEN price ELSE second_highest

\* The first loop, from row i on with running maximum acc: an exception of
\* float(value[2]) ends it.
RECURSIVE HighestFrom(_, _, _)
HighestFrom(values, i, acc) ==
    IF i > Len(values) THEN [exc |-> "none", val |-> acc]
    ELSE IF PriceOf(values[i]).exc # "none" THEN PriceOf(values[i])
    ELSE HighestFrom(values, i + 1, Greater(PriceOf(values[i]).val, acc))

\* The second loop (every float() in it has succeeded in the first loop).
RECURSIVE SecondHighestFrom(_, _, _, _)
SecondHighestFrom(values, i, highest, acc) ==
    IF i > Len(values) THEN acc
    ELSE SecondHighestFrom(values, i + 1, highest,
             GreaterBelow(PriceOf(values[i]).val, acc, highest))

second_prediction(last, first_prediction) == (last + first_prediction) \div 2

third_prediction(first, second) ==
    IF second >= first
    THEN second + (second - first) \div 4
    ELSE second + (first - second) \div 4

\* Mutant: the ticker is taken from the last row of the window.
PredictedRow_LastTicker(values, date, predicted) ==
    <<values[Len(values)][1], Strftime(date), predicted>>

\* One row of predicted_rows: the ticker of the first row of the window, the
\* date and the formatted prediction.
PredictedRow(values, date, predicted) == <<values[1][1], Strftime(date), predicted>>

\* The loop building predicted_rows, from index on, date being the date after
\* date += timedelta(days=1): exc is OverflowError when that raised.
RECURSIVE PredictedRowsFrom(_, _, _, _)
PredictedRowsFrom(values, predictions, index, date) ==
    IF index > 3 THEN [exc |-> "none", rows |-> <<>>]
    ELSE IF date.exc # "none" THEN [exc |-> date.exc, rows |-> <<>>]
    ELSE [PredictedRowsFrom(values, predictions, index + 1, AddDay(date))
            EXCEPT !.rows = <<PredictedRow(values, date, predictions[index])>>
                            \o @]

Raise(e, l) ==
    [exc |-> e, line |-> l, first |-> 0, second |-> 0, third |-> 0,
     rows |-> <<>>]

\* Lines 189-208: the predictions are formatted and the rows built.
PredictRows(values, first, second, third, built) ==
    IF built.exc # "none" THEN Raise(built.exc, 202)
    ELSE [exc |-> "none", line |-> 0, first |-> first, second |-> second,
          third |-> third, rows |-> built.rows]

\* Lines 189-195: date is the date of the last row, or strptime raises.
PredictFormatted(values, first, second, third, date) ==
    IF date.exc # "none" THEN Raise(date.exc, 195)
    ELSE Only({ PredictRows(values, first, second, third, built) :
                  built \in { PredictedRowsFrom(values,
                                  <<Format2f(first), Format2f(second),
                                    Format2f(third)>>,
                                  1, AddDay(date)) } })

\* Lines 176-187, given first_prediction and second_prediction.
PredictThird(values, first, second) ==
    Only({ PredictFormatted(values, first, second,
                            third_prediction(first, second), date) :
             date \in {Strptime(values[Len(values)][2])} })

\* Lines 165-176, given second_highest.
PredictFrom(values, second_highest) ==
    IF second_highest = 0 THEN Raise("ValueError", 168)
    ELSE Only({ PredictThird(values, second_highest, second) :
                  second \in { second_prediction(
                                   PriceOf(values[Len(values)]).val,
                                   second_highest) } })

\* Lines 156-163, given the result of the first loop.
PredictWithHighest(values, highest) ==
    IF highest.exc # "none" THEN Raise(highest.exc, 152)
    ELSE Only({ PredictFrom(values, second_highest) :
                  second_highest \in
                      {SecondHighestFrom(values, 1, highest.val, 0)} })

\* predict_values(values): exc and line name the exception it raises and the
\* line raising it; otherwise rows are the predicted rows and first, second,
\* third the three predictions before formatting.
predict_values(values) ==
    Only({ PredictWithHighest(values, highest) :
             highest \in {HighestFrom(values, 1, 0)} })

(***************************************************************************)
(* The files a run reads                                                    *)
(***************************************************************************)

\* Bounds of the model.
MaxFiles == 2
MaxRows == 11

AAPL == <<"A", "A", "P", "L">>
MSFT == <<"M", "S", "F", "T">>

Str_28_02_2021 == <<"2", "8", "-", "0", "2", "-", "2", "0", "2", "1">>
Str_31_12_2020 == <<"3", "1", "-", "1", "2", "-", "2", "0", "2", "0">>

Price(cents) == Format2f(cents * 8)

\* Well-formed rows a file is filled with.
BaseRows ==
    { <<AAPL, Str_28_02_2021, Price(5000)>>,
      <<AAPL, Str_31_12_2020, Price(1200)>> }

\* Rows that stand at one place of a file in the place of its base row:
\* well-formed ones (another price, a zero price, another ticker) and
\* malformed ones of every kind check_data_sanity looks at.
VariantRows ==
    { <<AAPL, Str_28_02_2021, Price(1500)>>,
      <<AAPL, Str_28_02_2021, Price(0)>>,
      <<MSFT, Str_28_02_2021, Price(2000)>>,
      <<AAPL \o <<"1">>, Str_28_02_2021, Price(1500)>>,
      <<AAPL, <<"3", "1", "-", "0", "2", "-", "2", "0", "2", "1">>,
        Price(1500)>>,
      <<AAPL, <<"1", "-", "0", "3", "-", "2", "0", "2", "1">>, Price(1500)>>,
      <<AAPL, Str_28_02_2021, <<"1", "0", ".", "5">>>>,
      <<AAPL, Str_28_02_2021, <<"b", "c">>>>,
      <<>>,
      <<AAPL>>,
      <<AAPL, Str_28_02_2021>> }

\* The rows of a file of n rows, all base except row p, which is variant.
FileRows(n, base, p, variant) ==
    [i \in 1..n |-> IF i = p THEN variant ELSE base]

\* What list(csv.reader(csv_file)) can return for a file.
RowSets ==
    { FileRows(n, b, p, v) :
        n \in {0} \cup (WindowLen - 1)..MaxRows, b \in BaseRows,
        p \in 1..MaxRows, v \in VariantRows }

(***************************************************************************)
(* State                                                                    *)
(***************************************************************************)

VARIABLES
    data_check,     \* parsed_args.data_check: "file", "sequence" or "none"
    n_files,        \* len(files)
    file,           \* index in files of the file of the current iteration
    pc,             \* where main is
    rows,           \* extract_values: the rows read from the file
    random_index,   \* extract_values: the offset drawn (-1 before)
    values,         \* the ten rows extract_values builds and returns
    prediction,     \* what predict_values computed for values
    final_values,   \* the rows handed to csv_writer.writerows
    outcome,        \* per file already dealt with: "Emitted" or "Skipped"
    warning,        \* line of the warnings.warn of this iteration, 0 if none
    exception       \* the uncaught exception that ended the run, if any

vars == <<data_check, n_files, file, pc, rows, random_index, values,
          prediction, final_values, outcome, warning, exception>>

NoException == [type |-> "none", line |-> 0]

NoPrediction == Raise("none", 0)

Init ==
    /\ data_check \in {"file", "sequence", "none"}
    /\ n_files \in 1..MaxFiles
    /\ file = 0
    /\ pc = "loop"
    /\ rows = <<>>
    /\ random_index = -1
    /\ values = <<>>
    /\ prediction = NoPrediction
    /\ final_values = <<>>
    /\ outcome = <<>>
    /\ warning = 0
    /\ exception = NoException

(***************************************************************************)
(* main and extract_values, step by step                                    *)
(***************************************************************************)

\* extract_values returns False (after a warning at the given line): main
\* skips the file and goes on with the loop.
Skip(line) ==
    /\ warning' = line
    /\ outcome' = Append(outcome, "Skipped")
    /\ pc' = "loop"

\* An exception nothing catches leaves main.
Abort(type, line) ==
    /\ exception' = [type |-> type, line |-> line]
    /\ pc' = "crashed"

\* for file in files: the loop goes on to the next file (the locals of the
\* iteration before are no longer read), or it ends and main returns.
NextFile ==
    /\ pc = "loop"
    /\ \/ /\ file < n_files
          /\ file' = file + 1
          /\ pc' = "open"
       \/ /\ file = n_files
          /\ pc' = "done"
          /\ UNCHANGED file
    /\ rows' = <<>>
    /\ random_index' = -1
    /\ values' = <<>>
    /\ prediction' = NoPrediction
    /\ final_values' = <<>>
    /\ warning' = 0
    /\ UNCHANGED <<data_check, n_files, outcome, exception>>

\* extract_values: rows = list(csv.reader(csv_file))
ReadRows ==
    /\ pc = "open"
    /\ rows' \in RowSets
    /\ pc' = IF data_check = "file" THEN "check_file" ELSE "sample"
    /\ UNCHANGED <<data_check, n_files, file, random_index, values,
                   prediction, final_values, outcome, warning, exception>>

\* Mutant: the warning is given but extract_values does not return False.
CheckFile_NoReturn ==
    /\ pc = "check_file"
    /\ \E ok \in {check_data_sanity(rows)} :
           \/ /\ ok \in {"True", "False"}
              /\ pc' = "sample"
              /\ warning' = IF ok = "False" THEN 119 ELSE warning
              /\ UNCHANGED <<outcome, exception>>
           \/ /\ ok = "IndexError"
              /\ Abort("IndexError", 90)
              /\ UNCHANGED <<outcome, warning>>
    /\ UNCHANGED <<data_check, n_files, file, rows, random_index, values,
                   prediction, final_values>>

\* if data_check == 'file': check_data_sanity(rows)
CheckFile ==
    /\ pc = "check_file"
    /\ \E ok \in {check_data_sanity(rows)} :
           \/ /\ ok = "True"
              /\ pc' = "sample"
              /\ UNCHANGED <<outcome, warning, exception>>
           \/ /\ ok = "False"
              /\ Skip(119)
              /\ UNCHANGED exception
           \/ /\ ok = "IndexError"
              /\ Abort("IndexError", 90)
              /\ UNCHANGED <<outcome, warning>>
    /\ UNCHANGED <<data_check, n_files, file, rows, random_index, values,
                   prediction, final_values>>

\* Mutant: random.randint(0, len(rows) - 11), the last offset never drawn.
Offsets_Short(rs) == 0..(Len(rs) - WindowLen - 1)

\* The offsets random.randint(0, len(rows) - 10) can return.
Offsets(rs) == 0..(Len(rs) - WindowLen)

\* ten_values: the rows at random_index + i for i in range(10)
TenValues(rs, k) == [i \in 1..WindowLen |-> rs[k + i]]

\* random.randint returns k and the ten rows are taken.
SampleAt(k) ==
    /\ pc = "sample"
    /\ k \in Offsets(rows)
    /\ random_index' = k
    /\ values' = TenValues(rows, k)
    /\ pc' = IF data_check = "sequence" THEN "check_sequence" ELSE "predict"
    /\ UNCHANGED <<data_check, n_files, file, rows, prediction, final_values,
                   outcome, warning, exception>>

Sample == \E k \in 0..MaxRows : SampleAt(k)

\* random.randint raises ValueError on an empty range, which is caught.
SampleFail ==
    /\ pc = "sample"
    /\ Offsets(rows) = {}
    /\ Skip(127)
    /\ UNCHANGED <<data_check, n_files, file, rows, random_index, values,
                   prediction, final_values, exception>>

\* if data_check == 'sequence': check_data_sanity(ten_values)
CheckSequence ==
    /\ pc = "check_sequence"
    /\ \E ok \in {check_data_sanity(values)} :
           \/ /\ ok = "True"
              /\ pc' = "predict"
              /\ UNCHANGED <<outcome, warning, exception>>
           \/ /\ ok = "False"
              /\ Skip(137)
              /\ UNCHANGED exception
           \/ /\ ok = "IndexError"
              /\ Abort("IndexError", 90)
              /\ UNCHANGED <<outcome, warning>>
    /\ UNCHANGED <<data_check, n_files, file, rows, random_index, values,
                   prediction, final_values>>

\* predicted_values = predict_values(values); nothing catches what it raises.
PredictValues ==
    /\ pc = "predict"
    /\ prediction' = predict_values(values)
    /\ \/ /\ prediction'.exc = "none"
          /\ pc' = "write"
          /\ UNCHANGED exception
       \/ /\ prediction'.exc # "none"
          /\ Abort(prediction'.exc, prediction'.line)
    /\ UNCHANGED <<data_check, n_files, file, rows, random_index, values,
                   final_values, outcome, warning>>

\* final_values = values + predicted_values, written to predictions/<file>
WriteOutput ==
    /\ pc = "write"
    /\ final_values' = values \o prediction.rows
    /\ outcome' = Append(outcome, "Emitted")
    /\ pc' = "loop"
    /\ UNCHANGED <<data_check, n_files, file, rows, random_index, values,
                   prediction, warning, exception>>

Next ==
    \/ NextFile
    \/ ReadRows
    \/ CheckFile
    \/ Sample
    \/ SampleFail
    \/ CheckSequence
    \/ PredictValues
    \/ WriteOutput

Spec == Init /\ [][Next]_vars

(***************************************************************************)
(* predict_values alone, on windows of ten well-formed rows                 *)
(***************************************************************************)

\* The prices of the windows: zero and two others, so that a window can have
\* one, two or three distinct prices, with the maximum at any number of rows.
WindowPrices == {Price(0), Price(1200), Price(1500)}

PriceWindows ==
    { [i \in 1..WindowLen |-> <<AAPL, Str_28_02_2021, ps[i]>>] :
        ps \in [1..WindowLen -> WindowPrices] }

\* The window of prices 10, 20, 20, 5, 20, 15, 20, 8, 20, 12.
ExampleWindow ==
    [i \in 1..WindowLen |->
        <<AAPL, Str_28_02_2021,
          Price(100 * <<10, 20, 20, 5, 20, 15, 20, 8, 20, 12>>[i])>>]

\* Dates at the start and the end of every month of a leap year divisible by
\* 400, a leap year, a common year and a common year divisible by 100.
WindowDates ==
    { [exc |-> "none", day |-> d, month |-> m, year |-> y] :
        d \in {1, 27, 28, 29, 30, 31}, m \in 1..12,
        y \in {2000, 2020, 2021, 2100} }

DateWindows ==
    { [i \in 1..WindowLen |->
          <<AAPL,
            IF i = WindowLen THEN Strftime(date) ELSE Str_31_12_2020,
            Price(IF i = 1 THEN 1200 ELSE 1500)>>] :
        date \in {dt \in WindowDates : dt.day <= DaysInMonth(dt.year, dt.month)} }

\* main has one file, of ten rows, and is about to call predict_values.
InitPredict ==
    /\ data_check = "none"
    /\ n_files = 1
    /\ file = 1
    /\ pc = "predict"
    /\ values \in PriceWindows \cup DateWindows \cup {ExampleWindow}
    /\ rows = values
    /\ random_index = 0
    /\ prediction = NoPrediction
    /\ final_values = <<>>
    /\ outcome = <<>>
    /\ warning = 0
    /\ exception = NoException

NextPredict == PredictValues \/ WriteOutput

SpecPredict == InitPredict /\ [][NextPredict]_vars

(***************************************************************************)
(* Vocabulary of the properties                                             *)
(***************************************************************************)

\* The file of the current iteration has been dealt with.
FileDone == pc = "loop" /\ file >= 1 /\ Len(outcome) = file

\* predict_values has returned rows for the window in values.
Predicted == prediction.rows # <<>>

\* predict_values has been called on the window in values.
PredictCalled == pc \in {"write", "loop", "crashed"} /\ values # <<>>
                 /\ (pc = "loop" => Predicted)
                 /\ (pc = "crashed" => exception.line > 100)

\* The float of the price of every row of a window of well-formed rows.
PricesOf(window) == {ParseFloat(window[i][3]).val : i \in 1..Len(window)}

MaxOf(S) == CHOOSE m \in S : \A x \in S : x <= m

AbsDiff(a, b) == IF a >= b THEN a - b ELSE b - a

\* A row that is no Record: fewer than three fields, a ticker that is not
\* alphabetic, a date or a price that does not come back from parsing and
\* formatting as it was.
NotWellFormed(row) ==
    \/ Len(row) < 3
    \/ ~IsAlpha(row[1])
    \/ Strptime(row[2]).exc # "none"
    \/ Strftime(Strptime(row[2])) # row[2]
    \/ ParseFloat(row[3]).exc # "none"
    \/ Format2f(ParseFloat(row[3]).val) # row[3]

\* The number of the day of a date, counted from 01-01-0001 (the proleptic
\* Gregorian ordinal), computed without the month lengths of the model.
Ordinal(date) ==
    LET y    == date.year - 1
        leap == (date.year % 4 = 0)
                /\ ((date.year % 100 # 0) \/ (date.year % 400 = 0))
        before == <<0, 31, 59, 90, 120, 151, 181, 212, 243, 273, 304, 334>>
    IN  365 * y + (y \div 4) - (y \div 100) + (y \div 400)
        + before[date.month]
        + (IF leap /\ date.month > 2 THEN 1 ELSE 0)
        + date.day

(***************************************************************************)
(* C1                                                                       *)
(***************************************************************************)

\* C1: a file whose window makes predict_values fail for want of a second
\* highest price ends Skipped and the run is not aborted by that failure.
C1_DegenerateFileIsSkipped ==
    (prediction.exc = "ValueError" /\ prediction.line = 168)
        => /\ pc # "crashed"
           /\ exception = NoException
           /\ FileDone
           /\ outcome[file] = "Skipped"

(***************************************************************************)
(* C2                                                                       *)
(***************************************************************************)

\* C2: when predict_values succeeds, the second prediction is the mean of the
\* last price and the first prediction, and the third is the second plus a
\* quarter of |second - first| when second >= first and the second minus that
\* quarter when second < first; on the example window it is 13.125.
C2_ThirdPredictionIsSigned ==
    Predicted =>
        /\ 2 * prediction.second
             = ParseFloat(values[WindowLen][3]).val + prediction.first
        /\ prediction.third =
              IF prediction.second >= prediction.first
              THEN prediction.second
                   + AbsDiff(prediction.second, prediction.first) \div 4
              ELSE prediction.second
                   - AbsDiff(prediction.second, prediction.first) \div 4
        /\ (values = ExampleWindow => 1000 * prediction.third = 13125 * Unit)

(***************************************************************************)
(* C3                                                                       *)
(***************************************************************************)

\* The rows of the file of the current iteration have been read and are
\* fewer than a window.
ShortFileRead == file >= 1 /\ pc \notin {"open", "done"} /\ Len(rows) < WindowLen

\* C3 as claimed: in each of the three modes a file of fewer than 10 rows is
\* skipped by the failure of the sampling, reported by the warning of line
\* 127 and not by the corrupted-data warning of a failed validation.
C3_ShortFileFailsInSampler ==
    (ShortFileRead /\ FileDone) => (outcome[file] = "Skipped" /\ warning = 127)

\* C3 as amended: a file of fewer than 10 rows is skipped in each mode and
\* nothing is raised; with data_check 'sequence' or 'none' the sampling fails
\* and warns at line 127, with data_check 'file' check_data_sanity rejects
\* the rows first, the warning is the corrupted-data one of line 119 and the
\* sampling is never reached.
C3_ShortFileSkipped ==
    ShortFileRead =>
        /\ exception = NoException
        /\ values = <<>>
        /\ pc \in {"check_file", "sample", "loop"}
        /\ (pc = "check_file") => (data_check = "file")
        /\ (pc = "sample") => (data_check # "file")
        /\ (pc = "loop") =>
              /\ FileDone
              /\ outcome[file] = "Skipped"
              /\ warning = IF data_check = "file" THEN 119 ELSE 127

C3_Witness ==
    /\ ShortFileRead
    /\ FileDone
    /\ Len(rows) = WindowLen - 1
    /\ data_check = "file"
    /\ warning = 119
    /\ \A i \in 1..Len(rows) : ~NotWellFormed(rows[i])

(***************************************************************************)
(* C4                                                                       *)
(***************************************************************************)

\* C4: on a window of non-negative prices predict_values raises for want of
\* a second highest price exactly when the ten prices are identical, and
\* returns a prediction in every other case.
C4_DegenerateIffAllEqual ==
    (PredictCalled /\ \A p \in PricesOf(values) : p >= 0) =>
        /\ (prediction.exc = "ValueError" /\ prediction.line = 168)
              <=> (Cardinality(PricesOf(values)) = 1)
        /\ (Cardinality(PricesOf(values)) > 1) => Predicted

(***************************************************************************)
(* C5                                                                       *)
(***************************************************************************)

\* The rows check_data_sanity has been given in this iteration, once it has
\* been called.
CheckedRows ==
    IF data_check = "file" /\ file >= 1
       /\ pc \in {"sample", "check_sequence", "predict", "write", "loop",
                  "crashed"}
    THEN rows
    ELSE IF data_check = "sequence" /\ values # <<>>
            /\ pc \in {"predict", "write", "loop", "crashed"}
         THEN values
         ELSE <<>>

\* C5: with data_check 'file' or 'sequence', when the checked rows include a
\* row that is no well-formed Record (a row of fewer than three fields
\* included), check_data_sanity returns False without raising and the file
\* is skipped, the run going on.
C5_MalformedRowIsSkipped ==
    (\E i \in 1..Len(CheckedRows) : NotWellFormed(CheckedRows[i])) =>
        /\ exception = NoException
        /\ FileDone
        /\ outcome[file] = "Skipped"
        /\ warning \in {119, 137}

(***************************************************************************)
(* C6                                                                       *)
(***************************************************************************)

\* C6: when predict_values succeeds, the first prediction is the greatest of
\* the prices of the window that are strictly below its maximum: a price of
\* the window, strictly below the maximum, however many rows have the maximum.
C6_FirstIsSecondHighest ==
    Predicted =>
        LET prices == PricesOf(values)
            below  == {p \in prices : p < MaxOf(prices)}
        IN  /\ below # {}
            /\ prediction.first = MaxOf(below)
            /\ prediction.first \in prices
            /\ prediction.first < MaxOf(prices)
            /\ prediction.rows[1][3] = Format2f(MaxOf(below))

C6_Witness ==
    /\ Predicted
    /\ Cardinality(PricesOf(values)) = 3
    /\ Cardinality({i \in 1..WindowLen :
                      ParseFloat(values[i][3]).val = MaxOf(PricesOf(values))})
          >= 3
    /\ ParseFloat(values[1][3]).val = MaxOf(PricesOf(values))
    /\ prediction.first = 12 * Unit

(***************************************************************************)
(* C7                                                                       *)
(***************************************************************************)

\* C7: when the last row of the window has a valid DD-MM-YYYY date D, the
\* three predicted rows have the dates D+1, D+2 and D+3 in this order, in
\* calendar days and in the same format; after 28-02-2021 they are
\* 01-03-2021, 02-03-2021 and 03-03-2021.
C7_DatesAreNextThreeDays ==
    (Predicted /\ Strptime(values[WindowLen][2]).exc = "none"
       /\ Strftime(Strptime(values[WindowLen][2])) = values[WindowLen][2]) =>
        /\ Len(prediction.rows) = 3
        /\ \A k \in 1..3 :
              /\ Strptime(prediction.rows[k][2]).exc = "none"
              /\ Strftime(Strptime(prediction.rows[k][2]))
                    = prediction.rows[k][2]
              /\ Ordinal(Strptime(prediction.rows[k][2]))
                    = Ordinal(Strptime(values[WindowLen][2])) + k
        /\ (values[WindowLen][2] = Str_28_02_2021) =>
              /\ prediction.rows[1][2]
                    = <<"0", "1", "-", "0", "3", "-", "2", "0", "2", "1">>
              /\ prediction.rows[2][2]
                    = <<"0", "2", "-", "0", "3", "-", "2", "0", "2", "1">>
              /\ prediction.rows[3][2]
                    = <<"0", "3", "-", "0", "3", "-", "2", "0", "2", "1">>

\* From 28-02-2020: the leap day, then the month changes.
C7_Witness ==
    /\ Predicted
    /\ values[WindowLen][2]
          = <<"2", "8", "-", "0", "2", "-", "2", "0", "2", "0">>
    /\ prediction.rows[1][2]
          = <<"2", "9", "-", "0", "2", "-", "2", "0", "2", "0">>
    /\ prediction.rows[3][2]
          = <<"0", "2", "-", "0", "3", "-", "2", "0", "2", "0">>

(***************************************************************************)
(* C8                                                                       *)
(***************************************************************************)

\* C8: of at least 10 rows the sampling takes exactly the 10 rows at offsets
\* k+1..k+10 for one k in 0..len(rows)-10, in the order of the file; every such
\* k can be drawn, no row outside the file is read, and of exactly 10 rows the
\* window is the whole file.
C8_WindowIsContiguous ==
    /\ (values # <<>>) =>
          /\ Len(values) = 10
          /\ random_index \in 0..(Len(rows) - 10)
          /\ \A i \in 1..10 :
                random_index + i \in 1..Len(rows)
                /\ values[i] = rows[random_index + i]
          /\ (Len(rows) = 10) => (values = rows)
    /\ (pc = "sample" /\ Len(rows) >= 10) =>
          \A k \in 0..(Len(rows) - 10) : ENABLED SampleAt(k)
    /\ (pc = "sample") =>
          \A k \in 0..(MaxRows + 1) :
              (ENABLED SampleAt(k)) => (k + 10 <= Len(rows))

C8_Witness ==
    /\ values # <<>>
    /\ Len(rows) > WindowLen
    /\ random_index = Len(rows) - WindowLen
    /\ values[WindowLen] # values[1]
    /\ values[WindowLen] = rows[Len(rows)]

(***************************************************************************)
(* C9                                                                       *)
(***************************************************************************)

\* C9 as claimed, where predict_values returns: for every window that
\* check_data_sanity accepts, predict_values returns exactly 3 rows and each
\* has the ticker of every row of the window, so that the 13 rows written
\* have one ticker.
C9_TickerOfEveryRow ==
    (Predicted /\ data_check \in {"file", "sequence"}
       /\ check_data_sanity(values) = "True") =>
        /\ Len(prediction.rows) = 3
        /\ \A k \in 1..Len(prediction.rows) : \A i \in 1..Len(values) :
              prediction.rows[k][1] = values[i][1]
        /\ \A j \in 1..Len(final_values) :
              final_values[j][1] = final_values[1][1]

\* C9 as amended: when predict_values succeeds, it returns exactly 3 rows and
\* each has the ticker of the first row of the window; the 13 rows written
\* are the window followed by these, and they have one ticker when the 10
\* rows of the window have (check_data_sanity does not compare tickers).
C9_TickerOfFirstRow ==
    Predicted =>
        /\ Len(prediction.rows) = 3
        /\ \A k \in 1..3 : prediction.rows[k][1] = values[1][1]
        /\ (final_values # <<>>) =>
              /\ Len(final_values) = 13
              /\ SubSeq(final_values, 1, 10) = values
              /\ SubSeq(final_values, 11, 13) = prediction.rows
              /\ (\A i \in 1..10 : values[i][1] = values[1][1]) =>
                    (\A j \in 1..13 : final_values[j][1] = values[1][1])

C9_Witness ==
    /\ FileDone
    /\ outcome[file] = "Emitted"
    /\ data_check = "file"
    /\ check_data_sanity(values) = "True"
    /\ values[WindowLen][1] = MSFT
    /\ final_values[13][1] = AAPL

(***************************************************************************)
(* C10                                                                      *)
(***************************************************************************)

\* C10: with data_check 'file', once check_data_sanity has accepted the rows
\* the sampling cannot fail (the warning of line 127 is never given) and the
\* window is accepted by check_data_sanity at every offset; with data_check
\* 'file' or 'sequence' predict_values is only called on a window that
\* check_data_sanity accepts.
C10_PredictOnlyOnCheckedWindow ==
    /\ (data_check = "file" /\ pc = "sample") =>
          /\ Len(rows) >= 10
          /\ \A k \in 0..(Len(rows) - 10) :
                check_data_sanity([i \in 1..10 |-> rows[k + i]]) = "True"
    /\ (data_check = "file") => (warning # 127)
    /\ (data_check \in {"file", "sequence"}
          /\ (pc = "predict" \/ PredictCalled)) =>
          check_data_sanity(values) = "True"

C10_Witness ==
    /\ data_check = "file"
    /\ pc = "predict"
    /\ Len(rows) = WindowLen + 1
    /\ random_index = 1
    /\ values[WindowLen] # values[1]

=============================================================================
